---------------------------- MODULE Spec2Model ----------------------------
(***************************************************************************)
(* Race registration system (wagnertayp/afcorrida).                        *)
(*                                                                         *)
(* DatabaseStorage (src/server/storage.ts) over the tables of the shared   *)
(* schema (src/unnamed/part_003), the HTTP routes (src/server/routes.ts)   *)
(* and the in-memory MemStorage (src/unnamed/part_001).                    *)
(*                                                                         *)
(* Every `await` on the database is one atomic step; what a handler does   *)
(* between two awaits belongs to the step of the await that precedes it.   *)
(* Identifiers (gen_random_uuid / randomUUID) are modelled by a counter:   *)
(* every generated id is fresh.  Timestamps are values of a clock.         *)
(***************************************************************************)
EXTENDS Naturals, Integers, Sequences, FiniteSets, TLC

VARIABLES
    registrants,     \* rows of table "registrants" (DatabaseStorage)
    adminUsers,      \* rows of table "admin_users" (DatabaseStorage)
    nextId,          \* the next identifier gen_random_uuid()/randomUUID() yields
    clock,           \* the database's / process's current time
    proc,            \* the in-flight POST /api/registrants requests
    session,         \* express-session: the adminId held by each session
    resp,            \* the last response of an admin / auth endpoint
    seed,            \* the runs of seedAdminUserWithRetry
    adminSeeded,     \* DatabaseStorage.adminSeeded
    memRegistrants,  \* MemStorage.registrants (values of the Map)
    usedBibNumbers,  \* MemStorage.usedBibNumbers
    memCall          \* the MemStorage.createRegistrant call in progress

vars == <<registrants, adminUsers, nextId, clock, proc, session, resp, seed,
          adminSeeded, memRegistrants, usedBibNumbers, memCall>>

dbVars == <<registrants, adminUsers, nextId, clock, proc, session, resp, seed,
            adminSeeded>>
memVars == <<memRegistrants, usedBibNumbers, memCall>>

---------------------------------------------------------------------------
(* Bounds of the model.                                                    *)

\* The size of the bib space: Math.floor(Math.random() * 999) + 1 draws from
\* 1..999 (storage.ts:184, part_001:95); the model draws from 1..BibSpace.
BibSpace == 2

\* The draw cap of DatabaseStorage.generateUniqueBibNumber: 100 in the code
\* (storage.ts:181); the model gives up after GenMaxAttempts colliding draws.
GenMaxAttempts == 2

\* Identifiers 1..MaxId: at most MaxId registrants are ever created.
MaxId == 6

\* The capacity the client announces: 100 participants
\* (registration.tsx:91); scaled below the bib space like the bib space.
Capacity == 1

---------------------------------------------------------------------------
(* Program constants.                                                      *)

\* const maxAttempts = 5 of DatabaseStorage.createRegistrant.
maxAttempts == 5

\* const maxAttempts = 10 of DatabaseStorage.seedAdminUserWithRetry.
seedMaxAttempts == 10

Procs == {"r1", "r2"}
Sessions == {"s1"}

\* req.body.name: a string, or absent / not a string.
NoName == "<undefined>"
BodyNames == {NoName, "Ana"}

PaymentStatuses == {"pendente", "confirmado"}

NoRegistrant ==
    [id |-> 0, name |-> NoName, bib |-> 0, created_at |-> 0,
     payment_status |-> "pendente"]

---------------------------------------------------------------------------
(* Error messages, and the tests the code makes on them.                   *)

NoError == "<none>"
ZodErrorMsg == "ZodError: Required"
PgDuplicateBibMsg ==
    "duplicate key value violates unique constraint \"registrants_bib_unique\""
PgConnectionMsg == "Connection terminated unexpectedly"
GenExhaustedMsg == "Unable to generate unique bib number after maximum attempts"
BibConflictMsg ==
    "Unable to create registrant due to bib number conflicts after maximum attempts"
AfterLoopMsg == "Unable to create registrant after maximum attempts"

\* error.message.includes('duplicate')
IncludesDuplicate(msg) == msg \in {PgDuplicateBibMsg}

\* error.message.includes('bib')
IncludesBib(msg) == msg \in {PgDuplicateBibMsg, GenExhaustedMsg, BibConflictMsg}

\* Mutant: the catch block tests for 'bib' alone.
IsBibConflictBibOnly(msg) == IncludesBib(msg)

\* The test of the catch block of createRegistrant.
IsBibConflict(msg) == IncludesDuplicate(msg) /\ IncludesBib(msg)

\* POST /api/registrants: the status of the catch block. Every error the
\* handler can see is an instance of Error.
PostErrorStatus(msg) == IF msg # NoError THEN 400 ELSE 500

---------------------------------------------------------------------------
(* The in-flight create requests.                                          *)

IdleProc ==
    [pc |-> "idle", name |-> NoName, attempts |-> 0, genAttempts |-> 0,
     bib |-> 0, error |-> NoError, status |-> 0, ret |-> NoRegistrant]

InFlight == {p \in Procs : proc[p].pc \in {"gen", "insert"}}

\* insertRegistrantSchema.parse: name must be a string.
ValidBody(name) == name # NoName

\* Math.floor(Math.random() * 999) + 1, for r = Math.floor(Math.random() * 999).
DrawBib(r) == r + 1

\* select().from(registrants).where(eq(registrants.bib, bib)).limit(1)
ExistingBib(bib) == {r \in registrants : r.bib = bib}

\* Mutant: the payment_status default is the wrong enum value.
NewRowConfirmed(name, bib) ==
    [id |-> nextId, name |-> name, bib |-> bib, created_at |-> clock,
     payment_status |-> "confirmado"]

\* The row an insert of {...insertRegistrant, bib} stores: id, created_at and
\* payment_status take the column defaults.
NewRow(name, bib) ==
    [id |-> nextId, name |-> name, bib |-> bib, created_at |-> clock,
     payment_status |-> "pendente"]

\* Mutant: the bib column without its unique constraint.
ViolatesUniqueBibDropped(bib) == FALSE

\* The unique constraint on registrants.bib.
ViolatesUniqueBib(bib) == \E r \in registrants : r.bib = bib

\* Mutant: the catch block tests attempts > maxAttempts, so the loop's own
\* test ends the call.
CaughtLoopTestEnds(p, msg) ==
    LET a == proc[p].attempts + 1 IN
    IF IsBibConflict(msg)
    THEN IF a > maxAttempts
         THEN [proc[p] EXCEPT !.pc = "done", !.attempts = a, !.bib = 0,
                   !.error = BibConflictMsg,
                   !.status = PostErrorStatus(BibConflictMsg)]
         ELSE IF a < maxAttempts
              THEN [proc[p] EXCEPT !.pc = "gen", !.attempts = a,
                        !.genAttempts = 0, !.bib = 0]
              ELSE [proc[p] EXCEPT !.pc = "done", !.attempts = a, !.bib = 0,
                        !.error = AfterLoopMsg,
                        !.status = PostErrorStatus(AfterLoopMsg)]
    ELSE [proc[p] EXCEPT !.pc = "done", !.attempts = a, !.bib = 0,
              !.genAttempts = 0,
              !.error = msg, !.status = PostErrorStatus(msg)]

\* Mutant: the catch block rethrows a bib conflict like any other error.
CaughtNoRetry(p, msg) ==
    [proc[p] EXCEPT !.pc = "done", !.attempts = proc[p].attempts + 1, !.bib = 0,
         !.genAttempts = 0, !.error = msg, !.status = PostErrorStatus(msg)]

\* The catch block of createRegistrant with the error msg caught: the request
\* goes on with the next attempt, or ends with the error the block throws.
Caught(p, msg) ==
    LET a == proc[p].attempts + 1 IN
    IF IsBibConflict(msg)
    THEN IF a >= maxAttempts
         THEN [proc[p] EXCEPT !.pc = "done", !.attempts = a, !.bib = 0,
                   !.error = BibConflictMsg,
                   !.status = PostErrorStatus(BibConflictMsg)]
         ELSE IF a < maxAttempts
              THEN [proc[p] EXCEPT !.pc = "gen", !.attempts = a,
                        !.genAttempts = 0, !.bib = 0]
              ELSE [proc[p] EXCEPT !.pc = "done", !.attempts = a, !.bib = 0,
                        !.error = AfterLoopMsg,
                        !.status = PostErrorStatus(AfterLoopMsg)]
    ELSE [proc[p] EXCEPT !.pc = "done", !.attempts = a, !.bib = 0,
              !.genAttempts = 0,
              !.error = msg, !.status = PostErrorStatus(msg)]

\* POST /api/registrants arrives: the body is validated, createRegistrant
\* starts.
PostRegistrants(p, name) ==
    /\ proc[p].pc = "idle"
    /\ nextId + Cardinality(InFlight) <= MaxId
    /\ proc' = [proc EXCEPT ![p] =
           IF ValidBody(name)
           THEN [IdleProc EXCEPT !.pc = "gen", !.name = name]
           ELSE [IdleProc EXCEPT !.pc = "done", !.error = ZodErrorMsg,
                     !.status = PostErrorStatus(ZodErrorMsg)]]
    /\ UNCHANGED <<registrants, adminUsers, nextId, clock, session, resp, seed, adminSeeded>>
    /\ UNCHANGED memVars

\* One turn of the loop of generateUniqueBibNumber: a draw and its
\* existence check.
GenerateUniqueBibNumber(p, r) ==
    /\ proc[p].pc = "gen"
    /\ LET bib == DrawBib(r)
           g == proc[p].genAttempts + 1
       IN  proc' = [proc EXCEPT ![p] =
               IF ExistingBib(bib) = {}
               THEN [proc[p] EXCEPT !.pc = "insert", !.bib = bib, !.genAttempts = 0]
               ELSE IF g >= GenMaxAttempts
                    THEN Caught(p, GenExhaustedMsg)
                    ELSE [proc[p] EXCEPT !.genAttempts = g]]
    /\ UNCHANGED <<registrants, adminUsers, nextId, clock, session, resp, seed, adminSeeded>>
    /\ UNCHANGED memVars

\* Mutant: an insert on a taken bib replaces the row before it reports the
\* conflict.
InsertRegistrantUpsert(p) ==
    /\ proc[p].pc = "insert"
    /\ LET row == NewRow(proc[p].name, proc[p].bib) IN
       /\ registrants' = {r \in registrants : r.bib # row.bib} \cup {row}
       /\ nextId' = nextId + 1
       /\ clock' = clock + 1
       /\ proc' = [proc EXCEPT ![p] =
              IF ViolatesUniqueBib(proc[p].bib)
              THEN Caught(p, PgDuplicateBibMsg)
              ELSE [proc[p] EXCEPT !.pc = "done", !.status = 201, !.ret = row]]
    /\ UNCHANGED <<adminUsers, session, resp, seed, adminSeeded>>
    /\ UNCHANGED memVars

\* db.insert(registrants).values({...insertRegistrant, bib}).returning()
InsertRegistrant(p) ==
    /\ proc[p].pc = "insert"
    /\ IF ViolatesUniqueBib(proc[p].bib)
       THEN /\ proc' = [proc EXCEPT ![p] = Caught(p, PgDuplicateBibMsg)]
            /\ UNCHANGED <<registrants, nextId, clock>>
       ELSE LET row == NewRow(proc[p].name, proc[p].bib) IN
            /\ registrants' = registrants \cup {row}
            /\ nextId' = nextId + 1
            /\ clock' = clock + 1
            /\ proc' = [proc EXCEPT ![p] =
                   [proc[p] EXCEPT !.pc = "done", !.status = 201, !.ret = row]]
    /\ UNCHANGED <<adminUsers, session, resp, seed, adminSeeded>>
    /\ UNCHANGED memVars

\* The database is unreachable when createRegistrant awaits it.
StorageError(p) ==
    /\ proc[p].pc \in {"gen", "insert"}
    /\ proc' = [proc EXCEPT ![p] = Caught(p, PgConnectionMsg)]
    /\ UNCHANGED <<registrants, adminUsers, nextId, clock, session, resp, seed, adminSeeded>>
    /\ UNCHANGED memVars

\* The response is sent; the handler is over.
PostDone(p) ==
    /\ proc[p].pc = "done"
    /\ proc' = [proc EXCEPT ![p] = IdleProc]
    /\ UNCHANGED <<registrants, adminUsers, nextId, clock, session, resp, seed, adminSeeded>>
    /\ UNCHANGED memVars

---------------------------------------------------------------------------
(* DatabaseStorage: the other operations on registrants.                   *)

\* db.update(registrants).set({payment_status}).where(eq(id)).returning():
\* the rows as updated.
UpdateReturning(id, status) ==
    {[r EXCEPT !.payment_status = status] : r \in {x \in registrants : x.id = id}}

\* Mutant: the update without its where clause.
UpdatedTableEveryRow(id, status) ==
    IF \E r \in registrants : r.id = id
    THEN {[r EXCEPT !.payment_status = status] : r \in registrants}
    ELSE registrants

\* Mutant: the update writes a row for an id that has none.
UpdatedTableUpsert(id, status) ==
    IF \E r \in registrants : r.id = id
    THEN {IF r.id = id THEN [r EXCEPT !.payment_status = status] ELSE r :
              r \in registrants}
    ELSE registrants \cup {[NoRegistrant EXCEPT !.id = id,
                                                !.payment_status = status]}

\* Mutant: the update writes nothing.
UpdatedTableUnwritten(id, status) == registrants

\* The table after that update.
UpdatedTable(id, status) ==
    {IF r.id = id THEN [r EXCEPT !.payment_status = status] ELSE r
       : r \in registrants}

\* Mutant: the delete spares the registrant created last.
ClearedTableKeepsNewest ==
    {r \in registrants : \A x \in registrants : x.created_at <= r.created_at}

\* Mutant: the delete spares the confirmed registrants.
ClearedTableKeepsConfirmed ==
    {r \in registrants : r.payment_status = "confirmado"}

\* The table after db.delete(registrants).
ClearedTable == {}

updatePaymentStatus(id, status) ==
    /\ registrants' = UpdatedTable(id, status)
    /\ UNCHANGED <<adminUsers, nextId, clock, proc, session, resp, seed, adminSeeded>>
    /\ UNCHANGED memVars

\* Mutant: the delete ends the create calls at work with a storage error.
clearAllRegistrantsAbortsCreates ==
    /\ registrants' = ClearedTable
    /\ proc' = [p \in Procs |->
                   IF p \in InFlight THEN Caught(p, PgConnectionMsg) ELSE proc[p]]
    /\ UNCHANGED <<adminUsers, nextId, clock, session, resp, seed, adminSeeded>>
    /\ UNCHANGED memVars

clearAllRegistrants ==
    /\ registrants' = ClearedTable
    /\ UNCHANGED <<adminUsers, nextId, clock, proc, session, resp, seed, adminSeeded>>
    /\ UNCHANGED memVars

\* select().from(registrants).orderBy(desc(registrants.created_at)), as a
\* sequence: the row with the greatest created_at first.
RECURSIVE OrderByCreatedAtDesc(_)
OrderByCreatedAtDesc(rows) ==
    IF rows = {} THEN <<>>
    ELSE LET first == CHOOSE r \in rows :
                 \A x \in rows : x.created_at < r.created_at \/ x = r
                     \/ (x.created_at = r.created_at /\ x.id < r.id)
         IN  <<first>> \o OrderByCreatedAtDesc(rows \ {first})

getRegistrants == OrderByCreatedAtDesc(registrants)

\* select().from(registrants).where(eq(registrants.id, id)).limit(1): the
\* row, if any (result[0]).
getRegistrantById(id) == {r \in registrants : r.id = id}

\* Every sequence of all of rows: the orders a select can return them in.
RECURSIVE SeqsOf(_)
SeqsOf(rows) ==
    IF rows = {} THEN {<<>>}
    ELSE UNION {{<<x>> \o t : t \in SeqsOf(rows \ {x})} : x \in rows}

\* Mutant: orderBy(asc(created_at)).
AscOrders(rows) ==
    {q \in SeqsOf(rows) :
        \A i \in 1..Len(q) : \A j \in 1..Len(q) :
            i < j => q[i].created_at <= q[j].created_at}

\* orderBy(desc(registrants.created_at)): the orders the query may answer in;
\* rows of equal created_at come in an order the database picks.
DescOrders(rows) ==
    {q \in SeqsOf(rows) :
        \A i \in 1..Len(q) : \A j \in 1..Len(q) :
            i < j => q[i].created_at >= q[j].created_at}

---------------------------------------------------------------------------
(* Strings of the search: a string is used through its characters.         *)

\* The characters of the names and of the search strings of the model; the
\* empty string has none.
Chars(str) ==
    CASE str = "Ana" -> <<"A", "n", "a">>
      [] str = "Bo"  -> <<"B", "o">>
      [] str = "an"  -> <<"a", "n">>
      [] str = "N"   -> <<"N">>
      [] str = "4"   -> <<"4">>
      [] str = "42"  -> <<"4", "2">>
      [] str = "2"   -> <<"2">>
      [] str = "2b"  -> <<"2", "b">>
      [] str = "A"   -> <<"A">>
      [] str = " A " -> <<" ", "A", " ">>
      [] OTHER       -> <<>>

\* String.prototype.trim: the string without the blanks at its two ends.
RECURSIVE trim(_)
trim(chars) ==
    IF chars = <<>> THEN <<>>
    ELSE IF Head(chars) = " " THEN trim(Tail(chars))
    ELSE IF chars[Len(chars)] = " " THEN trim(SubSeq(chars, 1, Len(chars) - 1))
    ELSE chars

DigitChars == <<"0", "1", "2", "3", "4", "5", "6", "7", "8", "9">>

IsDigit(c) == \E d \in 1..Len(DigitChars) : DigitChars[d] = c

DigitValue(c) == (CHOOSE d \in 1..Len(DigitChars) : DigitChars[d] = c) - 1

\* String.prototype.toLowerCase, character by character.
LowerChar(c) ==
    CASE c = "A" -> "a"
      [] c = "B" -> "b"
      [] c = "N" -> "n"
      [] OTHER   -> c

toLowerCase(chars) == [i \in 1..Len(chars) |-> LowerChar(chars[i])]

\* Number.prototype.toString of a positive integer.
RECURSIVE toString(_)
toString(n) ==
    IF n < 10 THEN <<DigitChars[n + 1]>>
    ELSE toString(n \div 10) \o <<DigitChars[(n % 10) + 1]>>

\* String.prototype.includes; also text LIKE '%sub%' for a sub without the
\* wildcards % and _.
includes(text, sub) ==
    \E i \in 1..(Len(text) - Len(sub) + 1) :
        SubSeq(text, i, i + Len(sub) - 1) = sub

\* The decimal digits a string starts with.
RECURSIVE LeadingDigits(_)
LeadingDigits(chars) ==
    IF chars = <<>> \/ ~IsDigit(Head(chars)) THEN <<>>
    ELSE <<Head(chars)>> \o LeadingDigits(Tail(chars))

RECURSIVE DigitsValue(_)
DigitsValue(digits) ==
    IF digits = <<>> THEN 0
    ELSE DigitsValue(SubSeq(digits, 1, Len(digits) - 1)) * 10
             + DigitValue(digits[Len(digits)])

\* parseInt of a string of letters and digits: {n} for the number its leading
\* digits spell, {} for NaN.
parseInt(chars) ==
    IF LeadingDigits(chars) = <<>> THEN {}
    ELSE {DigitsValue(LeadingDigits(chars))}

\* parseInt(query) || -1
ParsedBib(chars) ==
    IF parseInt(chars) = {} \/ parseInt(chars) = {0} THEN -1
    ELSE CHOOSE n \in parseInt(chars) : TRUE

\* ilike(registrants.name, `%${query.toLowerCase()}%`)
ilike(name, query) ==
    includes(toLowerCase(Chars(name)), toLowerCase(toLowerCase(Chars(query))))

\* The rows of searchRegistrants(query), before the orderBy.
searchRegistrants(query) ==
    {r \in registrants :
        ilike(r.name, query) \/ r.bib = ParsedBib(Chars(query))}

---------------------------------------------------------------------------
(* Admin seeding and the admin table.  A run of seedAdminUserWithRetry is   *)
(* started by the constructor, another by a call of ensureAdminSeeded.     *)

NoAdminId == "<undefined>"
AdminUsername == "john"
AdminPassword == "batata123"

\* bcrypt.hash(password, 10): a "$2b$10$..." string, never the password.
bcryptHash(password) == "$2b$10$" \o password

\* gen_random_uuid() of admin_users.id.
NewAdminId == IF adminUsers = {} THEN "admin-1" ELSE "admin-2"

\* select().from(adminUsers).where(eq(adminUsers.username, username)).limit(1)
getAdminByUsername(username) == {a \in adminUsers : a.username = username}

SeedRuns == {"constructor", "ensure"}

SeedRunIdle == [pc |-> "idle", attempts |-> 0]

\* seedAdminUserWithRetry has passed its test of adminSeeded: attempts = 0,
\* and seedAdminUser awaits its select.
SeedRunStart == [pc |-> "select", attempts |-> 0]

\* Mutant: the username column without its unique constraint.
ViolatesUniqueUsernameDropped(username) == FALSE

\* The unique constraint on admin_users.username.
ViolatesUniqueUsername(username) == \E a \in adminUsers : a.username = username

\* Mutant: the catch block gives up one attempt late.
SeedCaughtLate(run) ==
    LET a == seed[run].attempts + 1 IN
    IF a > seedMaxAttempts
    THEN [pc |-> "failed", attempts |-> a]
    ELSE [pc |-> "select", attempts |-> a]

\* The catch block of seedAdminUserWithRetry: the run gives up at
\* seedMaxAttempts, or waits retryDelay and calls seedAdminUser again.
SeedCaught(run) ==
    LET a == seed[run].attempts + 1 IN
    IF a >= seedMaxAttempts
    THEN [pc |-> "failed", attempts |-> a]
    ELSE [pc |-> "select", attempts |-> a]

\* seedAdminUser: the select of the existing admin.
SeedSelect(run) ==
    /\ seed[run].pc = "select"
    /\ IF getAdminByUsername(AdminUsername) = {}
       THEN /\ seed' = [seed EXCEPT ![run].pc = "insert"]
            /\ UNCHANGED adminSeeded
       ELSE /\ seed' = [seed EXCEPT ![run].pc = "done"]
            /\ adminSeeded' = TRUE
    /\ UNCHANGED <<registrants, adminUsers, nextId, clock, proc, session, resp>>
    /\ UNCHANGED memVars

\* seedAdminUser: the hash and the insert.
SeedInsert(run) ==
    /\ seed[run].pc = "insert"
    /\ IF ViolatesUniqueUsername(AdminUsername)
       THEN /\ seed' = [seed EXCEPT ![run] = SeedCaught(run)]
            /\ UNCHANGED <<adminUsers, adminSeeded>>
       ELSE /\ adminUsers' = adminUsers \cup
                   {[id |-> NewAdminId, username |-> AdminUsername,
                     password |-> bcryptHash(AdminPassword)]}
            /\ seed' = [seed EXCEPT ![run].pc = "done"]
            /\ adminSeeded' = TRUE
    /\ UNCHANGED <<registrants, nextId, clock, proc, session, resp>>
    /\ UNCHANGED memVars

\* The database is unreachable when seedAdminUser awaits it.
SeedStorageError(run) ==
    /\ seed[run].pc \in {"select", "insert"}
    /\ seed' = [seed EXCEPT ![run] = SeedCaught(run)]
    /\ UNCHANGED <<registrants, adminUsers, nextId, clock, proc, session, resp,
                   adminSeeded>>
    /\ UNCHANGED memVars

\* ensureAdminSeeded is called while no run of it is at work.
EnsureAdminSeeded ==
    /\ seed["ensure"].pc \in {"idle", "done", "failed"}
    /\ seed' = [seed EXCEPT !["ensure"] =
           IF ~adminSeeded THEN SeedRunStart ELSE [SeedRunIdle EXCEPT !.pc = "done"]]
    /\ UNCHANGED <<registrants, adminUsers, nextId, clock, proc, session, resp,
                   adminSeeded>>
    /\ UNCHANGED memVars

---------------------------------------------------------------------------
(* The admin and auth endpoints of routes.ts.  Each handler awaits the     *)
(* storage once, so each is one step; resp is the response it sends.       *)

NoResp ==
    [route |-> "none", sess |-> "none", adminId |-> NoAdminId, status |-> 0,
     message |-> "", rows |-> <<>>, authenticated |-> FALSE]

Response(route, s, status, message) ==
    [route |-> route, sess |-> s, adminId |-> session[s], status |-> status,
     message |-> message, rows |-> <<>>, authenticated |-> FALSE]

\* Mutant: the handlers do not look at the session.
NotLoggedInUnchecked(s) == FALSE

\* !(req.session as any)?.adminId
NotLoggedIn(s) == session[s] = NoAdminId

\* Mutant: the body of the status update is not validated.
ValidPaymentStatusAny(ps) == TRUE

\* updatePaymentStatusSchema.parse: payment_status is one of the enum.
ValidPaymentStatus(ps) == ps \in PaymentStatuses

\* PATCH /api/registrants/:id/payment-status
PatchPaymentStatus(s, id, ps) ==
    /\ IF ~ValidPaymentStatus(ps)
       THEN /\ resp' = Response("patch", s, 400, ZodErrorMsg)
            /\ UNCHANGED registrants
       ELSE IF UpdateReturning(id, ps) = {}
       THEN /\ resp' = Response("patch", s, 404, "Registrant not found")
            /\ registrants' = UpdatedTable(id, ps)
       ELSE /\ resp' = [Response("patch", s, 200, "") EXCEPT
                           !.rows = OrderByCreatedAtDesc(UpdateReturning(id, ps))]
            /\ registrants' = UpdatedTable(id, ps)
    /\ UNCHANGED <<adminUsers, nextId, clock, proc, session, seed, adminSeeded>>
    /\ UNCHANGED memVars

\* DELETE /api/registrants
DeleteRegistrants(s) ==
    /\ IF NotLoggedIn(s)
       THEN /\ resp' = Response("delete", s, 401, "Unauthorized")
            /\ UNCHANGED registrants
       ELSE /\ resp' = Response("delete", s, 200, "All registrants cleared successfully")
            /\ registrants' = ClearedTable
    /\ UNCHANGED <<adminUsers, nextId, clock, proc, session, seed, adminSeeded>>
    /\ UNCHANGED memVars

\* GET /api/registrants/export: the rows the CSV is made of.
ExportRegistrants(s) ==
    /\ IF NotLoggedIn(s)
       THEN resp' = Response("export", s, 401, "Unauthorized")
       ELSE resp' = [Response("export", s, 200, "text/csv") EXCEPT
                        !.rows = getRegistrants]
    /\ UNCHANGED <<registrants, adminUsers, nextId, clock, proc, session, seed,
                   adminSeeded>>
    /\ UNCHANGED memVars

\* Mutant: the login does not compare the password.
LoginAnyPassword(s, username, password) ==
    /\ IF username = "" \/ password = ""
       THEN /\ resp' = Response("login", s, 400, "Username and password required")
            /\ UNCHANGED session
       ELSE LET admin == getAdminByUsername(username) IN
            IF admin = {}
            THEN /\ resp' = Response("login", s, 401, "Invalid credentials")
                 /\ UNCHANGED session
            ELSE /\ resp' = Response("login", s, 200, "Login successful")
                 /\ session' = [session EXCEPT ![s] = (CHOOSE a \in admin : TRUE).id]
    /\ UNCHANGED <<registrants, adminUsers, nextId, clock, proc, seed, adminSeeded>>
    /\ UNCHANGED memVars

\* POST /api/auth/login
Login(s, username, password) ==
    /\ IF username = "" \/ password = ""
       THEN /\ resp' = Response("login", s, 400, "Username and password required")
            /\ UNCHANGED session
       ELSE LET admin == getAdminByUsername(username) IN
            IF admin = {} \/ \A a \in admin : a.password # password
            THEN /\ resp' = Response("login", s, 401, "Invalid credentials")
                 /\ UNCHANGED session
            ELSE /\ resp' = Response("login", s, 200, "Login successful")
                 /\ session' = [session EXCEPT ![s] = (CHOOSE a \in admin : TRUE).id]
    /\ UNCHANGED <<registrants, adminUsers, nextId, clock, proc, seed, adminSeeded>>
    /\ UNCHANGED memVars

\* Mutant: the logout answers and leaves the session as it is.
LogoutKeepsSession(s) ==
    /\ resp' = Response("logout", s, 200, "Logout successful")
    /\ UNCHANGED <<registrants, adminUsers, nextId, clock, proc, session, seed,
                   adminSeeded>>
    /\ UNCHANGED memVars

\* POST /api/auth/logout: req.session.destroy
Logout(s) ==
    /\ session' = [session EXCEPT ![s] = NoAdminId]
    /\ resp' = Response("logout", s, 200, "Logout successful")
    /\ UNCHANGED <<registrants, adminUsers, nextId, clock, proc, seed, adminSeeded>>
    /\ UNCHANGED memVars

\* GET /api/auth/check
AuthCheck(s) ==
    /\ resp' = [Response("check", s, 200, "") EXCEPT
                   !.authenticated = (session[s] # NoAdminId)]
    /\ UNCHANGED <<registrants, adminUsers, nextId, clock, proc, session, seed,
                   adminSeeded>>
    /\ UNCHANGED memVars

\* GET /api/registrants, with the search parameter ("" when it is absent or
\* empty: the handler then lists all).
GetRegistrantList(s, search) ==
    /\ IF search # ""
       THEN \E rows \in DescOrders(searchRegistrants(search)) :
                resp' = [Response("search", s, 200, "") EXCEPT !.rows = rows]
       ELSE \E rows \in DescOrders(registrants) :
                resp' = [Response("list", s, 200, "") EXCEPT !.rows = rows]
    /\ UNCHANGED <<registrants, adminUsers, nextId, clock, proc, session, seed,
                   adminSeeded>>
    /\ UNCHANGED memVars

\* The body of GET /api/stats for the list getRegistrants returned.
StatsOf(list) ==
    [total |-> Len(list),
     confirmed |-> Len(SelectSeq(list, LAMBDA r : r.payment_status = "confirmado")),
     pending |-> Len(SelectSeq(list, LAMBDA r : r.payment_status = "pendente"))]

\* GET /api/stats: rows carries the one object of the body.
GetStats(s) ==
    /\ resp' = [Response("stats", s, 200, "") EXCEPT
                   !.rows = <<StatsOf(getRegistrants)>>]
    /\ UNCHANGED <<registrants, adminUsers, nextId, clock, proc, session, seed,
                   adminSeeded>>
    /\ UNCHANGED memVars

---------------------------------------------------------------------------
(* MemStorage (part_001).  Its methods hold no await before their last     *)
(* statement: each runs to completion, and nothing else runs while the     *)
(* loop of generateUniqueBibNumber turns.                                  *)

MemIdle == [pc |-> "idle", name |-> NoName]

\* createRegistrant is called: randomUUID(), then generateUniqueBibNumber.
MemCreateRegistrant(name) ==
    /\ memCall.pc = "idle"
    /\ nextId <= MaxId
    /\ memCall' = [pc |-> "gen", name |-> name]
    /\ UNCHANGED <<memRegistrants, usedBibNumbers>>
    /\ UNCHANGED dbVars

\* One turn of do { bib = ... } while (this.usedBibNumbers.has(bib)): on a
\* used bib the loop turns again, on a free one createRegistrant completes.
MemGenerateUniqueBibNumber(r) ==
    /\ memCall.pc = "gen"
    /\ LET bib == DrawBib(r) IN
       IF bib \in usedBibNumbers
       THEN UNCHANGED <<memRegistrants, usedBibNumbers, memCall, nextId, clock>>
       ELSE /\ memRegistrants' = memRegistrants \cup
                   {[id |-> nextId, name |-> memCall.name, bib |-> bib,
                     created_at |-> clock, payment_status |-> "pendente"]}
            /\ usedBibNumbers' = usedBibNumbers \cup {bib}
            /\ memCall' = MemIdle
            /\ nextId' = nextId + 1
            /\ clock' = clock + 1
    /\ UNCHANGED <<registrants, adminUsers, proc, session, resp, seed, adminSeeded>>

MemUpdatePaymentStatus(id, status) ==
    /\ memCall.pc = "idle"
    /\ memRegistrants' =
           {IF r.id = id THEN [r EXCEPT !.payment_status = status] ELSE r
              : r \in memRegistrants}
    /\ UNCHANGED <<usedBibNumbers, memCall>>
    /\ UNCHANGED dbVars

\* Mutant: the clear empties the map and keeps the set of used bibs.
MemClearKeepsUsedBibs ==
    /\ memCall.pc = "idle"
    /\ memRegistrants' = {}
    /\ UNCHANGED <<usedBibNumbers, memCall>>
    /\ UNCHANGED dbVars

MemClearAllRegistrants ==
    /\ memCall.pc = "idle"
    /\ memRegistrants' = {}
    /\ usedBibNumbers' = {}
    /\ UNCHANGED memCall
    /\ UNCHANGED dbVars

---------------------------------------------------------------------------
Init ==
    /\ registrants = {}
    /\ adminUsers = {}
    /\ nextId = 1
    /\ clock = 1
    /\ proc = [p \in Procs |-> IdleProc]
    /\ session = [s \in Sessions |-> NoAdminId]
    /\ resp = NoResp
    /\ seed = [run \in SeedRuns |->
                  IF run = "constructor" THEN SeedRunStart ELSE SeedRunIdle]
    /\ adminSeeded = FALSE
    /\ memRegistrants = {}
    /\ usedBibNumbers = {}
    /\ memCall = MemIdle

\* DatabaseStorage under concurrent create requests, with the storage's
\* update and clear operations.
Next ==
    \/ \E p \in Procs, name \in BodyNames : PostRegistrants(p, name)
    \/ \E p \in Procs, r \in 0..(BibSpace - 1) : GenerateUniqueBibNumber(p, r)
    \/ \E p \in Procs : InsertRegistrant(p)
    \/ \E p \in Procs : StorageError(p)
    \/ \E p \in Procs : PostDone(p)
    \/ \E id \in 1..MaxId, st \in PaymentStatuses : updatePaymentStatus(id, st)
    \/ clearAllRegistrants

Spec == Init /\ [][Next]_vars

\* The HTTP surface: one client creating registrants, and the admin and auth
\* endpoints on a session.
LoginUsernames == {"", "john", "mary"}
\* The last one is the stored hash itself, sent as the password.
LoginPasswords == {"", "batata123", "wrong", bcryptHash("batata123")}
PatchBodies == PaymentStatuses \cup {"pago"}

\* The search parameters of the list requests: none, a name part, a bib.
RouteSearches == {"", "N", "2"}

RouteNext ==
    \/ SeedSelect("constructor")
    \/ SeedInsert("constructor")
    \/ \E name \in BodyNames : PostRegistrants("r1", name)
    \/ \E r \in 0..(BibSpace - 1) : GenerateUniqueBibNumber("r1", r)
    \/ InsertRegistrant("r1")
    \/ StorageError("r1")
    \/ PostDone("r1")
    \/ \E s \in Sessions, id \in 1..MaxId, ps \in PatchBodies :
           PatchPaymentStatus(s, id, ps)
    \/ \E s \in Sessions : DeleteRegistrants(s)
    \/ \E s \in Sessions : ExportRegistrants(s)
    \/ \E s \in Sessions, u \in LoginUsernames, pw \in LoginPasswords :
           Login(s, u, pw)
    \/ \E s \in Sessions : Logout(s)
    \/ \E s \in Sessions : AuthCheck(s)
    \/ \E s \in Sessions : GetStats(s)
    \/ \E s \in Sessions, search \in RouteSearches : GetRegistrantList(s, search)

RouteSpec == Init /\ [][RouteNext]_vars

\* MemStorage alone.
MemNext ==
    \/ \E name \in BodyNames \ {NoName} : MemCreateRegistrant(name)
    \/ \E r \in 0..(BibSpace - 1) : MemGenerateUniqueBibNumber(r)
    \/ \E id \in 1..MaxId, st \in PaymentStatuses : MemUpdatePaymentStatus(id, st)
    \/ MemClearAllRegistrants

MemSpec == Init /\ [][MemNext]_vars

\* The seeding alone: the constructor's run, the runs ensureAdminSeeded
\* starts, and a database that may fail any of their statements.
SeedNext ==
    \/ \E run \in SeedRuns : SeedSelect(run)
    \/ \E run \in SeedRuns : SeedInsert(run)
    \/ \E run \in SeedRuns : SeedStorageError(run)
    \/ EnsureAdminSeeded

SeedSpec == Init /\ [][SeedNext]_vars

\* The intake alone, one request at a time, with the names a body can carry:
\* none, the empty string, one letter, one letter between blanks, a name.
IntakeNames == {NoName, "", "A", " A ", "Ana"}

IntakeNext ==
    \/ \E name \in IntakeNames : PostRegistrants("r1", name)
    \/ \E r \in 0..(BibSpace - 1) : GenerateUniqueBibNumber("r1", r)
    \/ InsertRegistrant("r1")
    \/ StorageError("r1")
    \/ PostDone("r1")

IntakeSpec == Init /\ [][IntakeNext]_vars

\* The list and the search over stored tables: names, bibs of one to three
\* digits out of 1..999, and creation times that may be equal.
QueryNames == {"Ana", "Bo"}
QueryBibs == {4, 42, 142}
QueryTimes == 1..2
SearchQueries == {"an", "N", "4", "42", "2", "2b"}

QueryRows(id) ==
    {[id |-> id, name |-> n, bib |-> b, created_at |-> t,
      payment_status |-> "pendente"] :
         n \in QueryNames, b \in QueryBibs, t \in QueryTimes}

QueryTables ==
    {{}} \cup {{r} : r \in QueryRows(1)}
         \cup UNION {{{r, q} : q \in {x \in QueryRows(2) : x.bib # r.bib}} :
                        r \in QueryRows(1)}

QueryInit ==
    /\ registrants \in QueryTables
    /\ adminUsers = {}
    /\ nextId = Cardinality(registrants) + 1
    /\ clock = 3
    /\ proc = [p \in Procs |-> IdleProc]
    /\ session = [s \in Sessions |-> NoAdminId]
    /\ resp = NoResp
    /\ seed = [run \in SeedRuns |->
                  IF run = "constructor" THEN SeedRunStart ELSE SeedRunIdle]
    /\ adminSeeded = FALSE
    /\ memRegistrants = {}
    /\ usedBibNumbers = {}
    /\ memCall = MemIdle

QueryNext ==
    \E s \in Sessions, search \in SearchQueries \cup {""} :
        GetRegistrantList(s, search)

QuerySpec == QueryInit /\ [][QueryNext]_vars

---------------------------------------------------------------------------
(* The claims.                                                             *)

Bibs(rows) == {r.bib : r \in rows}

\* The step is one of create request p.
StepOf(p) == proc'[p] # proc[p]

\* Request p ends in this step.
Ends(p) == proc[p].pc # "done" /\ proc'[p].pc = "done"

\* C1: in every reachable state of DatabaseStorage under concurrent creates,
\* updates and clears, the stored bibs are pairwise distinct and lie in the
\* bib space.
C1_BibsDistinctInRange ==
    /\ \A a, b \in registrants : a # b => a.bib # b.bib
    /\ \A a \in registrants : a.bib \in 1..BibSpace

\* Two creates raced for one bib: one committed it, the other is about to
\* insert it.
C1_Witness ==
    /\ Cardinality(registrants) >= 2
    /\ \E p \in Procs : proc[p].pc = "insert" /\ ViolatesUniqueBib(proc[p].bib)

\* C2: a createRegistrant call in progress can always return: some draw ends
\* its loop (MemStorage).
C2_CreateCanReturn ==
    memCall.pc = "gen" => \E r \in 0..(BibSpace - 1) : DrawBib(r) \notin usedBibNumbers

\* C3: a PATCH of the payment status on a session with no adminId is rejected
\* (it is not answered 200) and changes no registrant's payment_status.
C3_PatchNeedsSession ==
    [][(resp' # resp /\ resp'.route = "patch" /\ resp'.adminId = NoAdminId)
          => (registrants' = registrants /\ resp'.status # 200)]_vars

\* C4: DELETE /api/registrants and GET /api/registrants/export on a session
\* with no adminId answer 401, return no row and leave the table as it was.
C4_AdminOnlyUnauthorized ==
    [][(resp' # resp /\ resp'.route \in {"delete", "export"}
            /\ resp'.adminId = NoAdminId)
          => (/\ resp'.status = 401
              /\ resp'.message = "Unauthorized"
              /\ resp'.rows = <<>>
              /\ registrants' = registrants)]_vars

\* An unauthorized bulk clear was answered while registrants are stored.
C4_Witness ==
    /\ resp.route = "delete"
    /\ resp.adminId = NoAdminId
    /\ resp.status = 401
    /\ registrants # {}

\* C5: once seeding has completed, a login with the documented credentials
\* is answered 200 and sets the session's adminId.
C5_DocumentedLoginSucceeds ==
    [][\A s \in Sessions :
          (adminSeeded /\ Login(s, AdminUsername, AdminPassword))
              => (resp'.status = 200 /\ session'[s] # NoAdminId)]_vars

\* C6: the number of stored registrants never exceeds the capacity.
C6_CapacityRespected == Cardinality(registrants) <= Capacity

\* C7: the step in which a create request succeeds adds exactly the returned
\* row to the table: a new id, a bib of the bib space that no stored row has,
\* the request's name, payment_status "pendente"; every other row stays.
C7_CreateAddsOne ==
    [][\A p \in Procs :
          (Ends(p) /\ proc'[p].status = 201)
              => LET row == proc'[p].ret IN
                 /\ registrants' = registrants \cup {row}
                 /\ row \notin registrants
                 /\ row.bib \in 1..BibSpace
                 /\ row.bib \notin Bibs(registrants)
                 /\ row.id \notin {r.id : r \in registrants}
                 /\ row.name = proc[p].name
                 /\ row.payment_status = "pendente"]_vars

\* A create returned its row into a table that held other rows.
C7_Witness ==
    \E p \in Procs :
        /\ proc[p].pc = "done" /\ proc[p].status = 201
        /\ proc[p].ret \in registrants
        /\ Cardinality(registrants) >= 2

C9_ExhaustionStatus ==
    \A p \in Procs :
        (proc[p].pc = "done" /\ proc[p].error \in {GenExhaustedMsg, BibConflictMsg})
            => (proc[p].status = 409 \/ proc[p].status \in 500..599)

\* C10: no step of a create request changes the table except the step in
\* which the request succeeds; a request that ends in failure has changed
\* nothing.
C10_FailureLeavesStore ==
    [][\A p \in Procs :
          (StepOf(p) /\ ~(Ends(p) /\ proc'[p].status = 201))
              => (registrants' = registrants /\ Bibs(registrants') = Bibs(registrants))]_vars

\* A request failed at the last point of the retry loop, the fifth rejected
\* insert, with rows stored.
C10_Witness ==
    \E p \in Procs :
        /\ proc[p].pc = "done"
        /\ proc[p].error = BibConflictMsg
        /\ proc[p].attempts = maxAttempts
        /\ registrants # {}

Ids(rows) == {r.id : r \in rows}

\* C11: a registrant that is "confirmado" stays "confirmado" for as long as it
\* is stored: no step moves it back to "pendente".
C11_ConfirmedStays ==
    [][\A r \in registrants : \A q \in registrants' :
          (r.payment_status = "confirmado" /\ q.id = r.id)
              => q.payment_status = "confirmado"]_vars

\* C12: a status update to "confirmado" of a stored id answers with the row
\* as updated, getRegistrantById(id) then yields that same row, with
\* "confirmado", and no step of a create request changes a stored row.
C12_UpdateThenFind ==
    [][/\ \A s \in Sessions : \A id \in 1..MaxId :
             (PatchPaymentStatus(s, id, "confirmado") /\ id \in Ids(registrants))
                 => /\ resp'.status = 200
                    /\ Len(resp'.rows) = 1
                    /\ getRegistrantById(id)' = {resp'.rows[1]}
                    /\ resp'.rows[1].id = id
                    /\ resp'.rows[1].payment_status = "confirmado"
       /\ (proc' # proc) => registrants \subseteq registrants']_vars

\* A status update answered with the confirmed row of a stored registrant,
\* next to another stored registrant.
C12_Witness ==
    /\ resp.route = "patch" /\ resp.status = 200
    /\ Len(resp.rows) = 1
    /\ resp.rows[1].payment_status = "confirmado"
    /\ resp.rows[1] \in registrants
    /\ Cardinality(registrants) >= 2

\* C13: a status update of an id that is not stored, never created or cleared
\* before the update, is answered 404 "Registrant not found" and leaves the
\* table as it is: no row appears, none changes.
C13_UpdateOfAbsentId ==
    [][\A s \in Sessions : \A id \in 1..MaxId : \A ps \in PaymentStatuses :
          (PatchPaymentStatus(s, id, ps) /\ id \notin Ids(registrants))
              => /\ resp'.status = 404
                 /\ resp'.message = "Registrant not found"
                 /\ resp'.rows = <<>>
                 /\ registrants' = registrants]_vars

\* Every id was given to a registrant, all were cleared, and a status update
\* was answered 404.
C13_Witness ==
    /\ resp.route = "patch" /\ resp.status = 404
    /\ nextId = MaxId + 1
    /\ registrants = {}

\* C14: a clear leaves the table empty: getRegistrants is the empty sequence
\* and no bib of the space is taken.  On the empty table, with one create
\* request at work, every draw passes the existence check and the insert of
\* the drawn bib stores the registrant and returns it.
C14_ClearFreesBibs ==
    [][/\ \A s \in Sessions :
             (DeleteRegistrants(s) /\ ~NotLoggedIn(s))
                 => /\ getRegistrants' = <<>>
                    /\ \A r \in 0..(BibSpace - 1) :
                           /\ ExistingBib(DrawBib(r))' = {}
                           /\ ~ViolatesUniqueBib(DrawBib(r))'
       /\ \A p \in Procs : \A r \in 0..(BibSpace - 1) :
             (registrants = {} /\ GenerateUniqueBibNumber(p, r))
                 => (proc'[p].pc = "insert" /\ proc'[p].bib = DrawBib(r))
       /\ \A p \in Procs :
             (registrants = {} /\ InsertRegistrant(p))
                 => /\ proc'[p].status = 201
                    /\ proc'[p].ret.bib = proc[p].bib
                    /\ registrants' = {proc'[p].ret}]_vars

\* After a clear of a table that held registrants, a create was answered 201
\* and its registrant is the only one stored.
C14_Witness ==
    /\ resp.route = "delete" /\ resp.status = 200
    /\ \E p \in Procs :
          /\ proc[p].pc = "done" /\ proc[p].status = 201
          /\ proc[p].ret.id > BibSpace
          /\ registrants = {proc[p].ret}

\* C15: a logout leaves the session with no adminId; on a session with no
\* adminId the session check answers authenticated = false and the clear and
\* the export answer 401; only a login answered 200 gives a session an
\* adminId again.
C15_LogoutEndsSession ==
    [][\A s \in Sessions :
          /\ Logout(s) => session'[s] = NoAdminId
          /\ (session[s] = NoAdminId /\ AuthCheck(s))
                 => resp'.authenticated = FALSE
          /\ (session[s] = NoAdminId
                  /\ (DeleteRegistrants(s) \/ ExportRegistrants(s)))
                 => (resp'.status = 401 /\ registrants' = registrants)
          /\ (session[s] = NoAdminId /\ session'[s] # NoAdminId)
                 => (resp'.route = "login" /\ resp'.status = 200)]_vars

\* A logout was answered on a session that was logged in.
C15_Witness ==
    /\ resp.route = "logout"
    /\ resp.adminId # NoAdminId
    /\ session[resp.sess] = NoAdminId

\* C16: the statistics endpoint reports total = the number of stored
\* registrants, confirmed and pending = the numbers of those with
\* "confirmado" and with "pendente", and total = confirmed + pending; with
\* two registrants just created it reports 2, 0, 2, and 2, 1, 1 once one of
\* them is confirmed.
C16_StatsAddUp ==
    [][\A s \in Sessions :
          GetStats(s) =>
              LET st == resp'.rows[1]
                  conf == {r \in registrants : r.payment_status = "confirmado"}
                  pend == {r \in registrants : r.payment_status = "pendente"}
              IN  /\ resp'.status = 200
                  /\ st.total = Cardinality(registrants)
                  /\ st.confirmed = Cardinality(conf)
                  /\ st.pending = Cardinality(pend)
                  /\ st.total = st.confirmed + st.pending]_vars

\* The statistics of two registrants, one of them confirmed.
C16_Witness ==
    /\ resp.route = "stats"
    /\ resp.rows = <<[total |-> 2, confirmed |-> 1, pending |-> 1]>>
    /\ Cardinality(registrants) = 2

Elems(q) == {q[i] : i \in 1..Len(q)}

\* C17: a search answers exactly the registrants whose name contains the
\* query, letter case aside, or whose bib written in decimal contains the
\* query, in an order getRegistrants can return them in.
C17_SearchBySubstring ==
    [][\A s \in Sessions : \A query \in SearchQueries :
          GetRegistrantList(s, query) =>
              LET matching ==
                      {r \in registrants :
                          \/ includes(toLowerCase(Chars(r.name)),
                                      toLowerCase(Chars(query)))
                          \/ includes(toString(r.bib), Chars(query))}
              IN  resp'.rows \in DescOrders(matching)]_vars

\* C18: the list holds every stored registrant exactly once, and of two
\* registrants with different created_at the later one comes first.
C18_ListNewestFirst ==
    [][\A s \in Sessions :
          GetRegistrantList(s, "") =>
              /\ Len(resp'.rows) = Cardinality(registrants)
              /\ Elems(resp'.rows) = registrants
              /\ \A i \in 1..Len(resp'.rows) : \A j \in 1..Len(resp'.rows) :
                     (i < j /\ resp'.rows[i].created_at # resp'.rows[j].created_at)
                         => resp'.rows[i].created_at > resp'.rows[j].created_at]_vars

\* A list of two registrants created at different times.
C18_Witness ==
    /\ resp.route = "list"
    /\ Len(resp.rows) = 2
    /\ resp.rows[1].created_at > resp.rows[2].created_at
    /\ resp.rows[1].id < resp.rows[2].id

\* C19: every stored registrant has a name of at least two characters once
\* the blanks at its ends are dropped: no request is answered 201 with a
\* shorter name, and a request without a name ends with a validation error.
C19_NameAtLeastTwo ==
    /\ \A r \in registrants : Len(trim(Chars(r.name))) >= 2
    /\ \A p \in Procs :
          /\ proc[p].status = 201 => Len(trim(Chars(proc[p].ret.name))) >= 2
          /\ (proc[p].pc = "done" /\ proc[p].name = NoName)
                 => proc[p].error = ZodErrorMsg

\* C20: the admin table never holds more than one "john", also when two
\* seeding runs have both found none; an admin once stored is never changed,
\* and a run whose select finds the admin ends without an insert.
C20_AdminSeededOnce ==
    [][/\ Cardinality(getAdminByUsername(AdminUsername)') <= 1
       /\ adminUsers # {} => adminUsers' = adminUsers
       /\ \A run \in SeedRuns :
             (SeedSelect(run) /\ getAdminByUsername(AdminUsername) # {})
                 => (seed'[run].pc = "done" /\ adminUsers' = adminUsers)]_vars

\* Both runs found no admin; one has inserted it, the other is about to
\* insert.
C20_Witness ==
    /\ adminUsers # {}
    /\ \E run \in SeedRuns : seed[run].pc = "insert"

\* C21: a seeding run makes at most seedMaxAttempts attempts: each of its
\* steps ends it, passes from the select to the insert, or counts one more
\* failed attempt, and at seedMaxAttempts failed attempts it has given up.
\* adminSeeded turns true only in a step that ends an attempt with success; a
\* run that gives up leaves it as it is, and ensureAdminSeeded then starts a
\* new run.
C21_SeedingBounded ==
    [][/\ \A run \in SeedRuns :
             /\ seed'[run].attempts <= seedMaxAttempts
             /\ seed'[run].pc \in {"select", "insert"}
                    => seed'[run].attempts < seedMaxAttempts
             /\ seed'[run].pc = "failed"
                    => seed'[run].attempts = seedMaxAttempts
             /\ (seed[run].pc \in {"select", "insert"} /\ seed'[run] # seed[run])
                    => \/ seed'[run].pc \in {"done", "failed"}
                       \/ seed'[run].attempts = seed[run].attempts + 1
                       \/ /\ seed[run].pc = "select" /\ seed'[run].pc = "insert"
                          /\ seed'[run].attempts = seed[run].attempts
             /\ (seed[run].pc # "failed" /\ seed'[run].pc = "failed")
                    => adminSeeded' = adminSeeded
       /\ (~adminSeeded /\ adminSeeded')
              => \E run \in SeedRuns :
                     /\ seed[run].pc \in {"select", "insert"}
                     /\ seed'[run].pc = "done"
                     /\ getAdminByUsername(AdminUsername)' # {}
       /\ (EnsureAdminSeeded /\ ~adminSeeded)
              => seed'["ensure"] = SeedRunStart]_vars

\* The constructor's run gave up after seedMaxAttempts failed attempts,
\* adminSeeded is false, and ensureAdminSeeded has started a new run.
C21_Witness ==
    /\ seed["constructor"].pc = "failed"
    /\ seed["constructor"].attempts = seedMaxAttempts
    /\ ~adminSeeded
    /\ seed["ensure"] = SeedRunStart

\* C22: the id, name, bib and created_at of a stored registrant never
\* change; a status update leaves every registrant of another id as it is and
\* neither adds nor removes a registrant.
C22_FieldsImmutable ==
    [][/\ \A r \in registrants : \A q \in registrants' :
             q.id = r.id
                 => (q.name = r.name /\ q.bib = r.bib
                         /\ q.created_at = r.created_at)
       /\ \A s \in Sessions : \A id \in 1..MaxId : \A ps \in PatchBodies :
             PatchPaymentStatus(s, id, ps)
                 => /\ Ids(registrants') = Ids(registrants)
                    /\ \A r \in registrants : r.id # id => r \in registrants']_vars

\* A status update was answered with its row while a registrant of another
\* id is stored with the other status.
C22_Witness ==
    /\ resp.route = "patch" /\ resp.status = 200
    /\ Len(resp.rows) = 1
    /\ resp.rows[1] \in registrants
    /\ \E r \in registrants :
          /\ r.id # resp.rows[1].id
          /\ r.payment_status # resp.rows[1].payment_status

\* C23: a step after which a stored registrant is no longer stored is an
\* authorised DELETE /api/registrants, and it leaves no registrant at all: no
\* create, status update, list, search, statistics, export, login or logout
\* removes one.
C23_RemovedOnlyByClear ==
    [][(\E r \in registrants : r.id \notin Ids(registrants'))
          => /\ registrants' = {}
             /\ resp'.route = "delete" /\ resp'.status = 200
             /\ \E s \in Sessions : DeleteRegistrants(s) /\ ~NotLoggedIn(s)]_vars

\* Two registrants were created, and after a clear none is stored.
C23_Witness ==
    /\ resp.route = "delete" /\ resp.status = 200
    /\ registrants = {}
    /\ nextId = 3
    /\ clock = 3
    /\ \A p \in Procs : proc[p].pc = "idle"

\* C24: a createRegistrant call counts at most maxAttempts failed attempts
\* and is at work only below that count, an attempt makes at most
\* GenMaxAttempts draws, the insert rejected at the last attempt ends the call
\* with the bib-conflict error, and no call ends with the error of the
\* statement after the loop.
C24_AttemptsBounded ==
    [][\A p \in Procs :
          /\ proc'[p].attempts <= maxAttempts
          /\ proc'[p].pc \in {"gen", "insert"} => proc'[p].attempts < maxAttempts
          /\ proc'[p].genAttempts < GenMaxAttempts
          /\ proc'[p].error # AfterLoopMsg
          /\ (InsertRegistrant(p) /\ ViolatesUniqueBib(proc[p].bib)
                  /\ proc[p].attempts = maxAttempts - 1)
                 => /\ proc'[p].pc = "done"
                    /\ proc'[p].error = BibConflictMsg
                    /\ proc'[p].attempts = maxAttempts]_vars

\* A call is at the last draw of its last attempt.
C24_Witness ==
    \E p \in Procs :
        /\ proc[p].pc = "gen"
        /\ proc[p].attempts = maxAttempts - 1
        /\ proc[p].genAttempts = GenMaxAttempts - 1

\* C25: a storage failure and the exhaustion of the draws end the call at
\* once with that very error and the table unchanged; a call goes back to
\* drawing with one more failed attempt only after its insert was rejected by
\* the unique constraint on bib.
C25_OnlyConflictRetried ==
    [][\A p \in Procs :
          /\ StorageError(p)
                 => /\ proc'[p].pc = "done"
                    /\ proc'[p].error = PgConnectionMsg
                    /\ registrants' = registrants
          /\ \A r \in 0..(BibSpace - 1) :
                 (GenerateUniqueBibNumber(p, r) /\ ExistingBib(DrawBib(r)) # {}
                      /\ proc[p].genAttempts + 1 >= GenMaxAttempts)
                     => /\ proc'[p].pc = "done"
                        /\ proc'[p].error = GenExhaustedMsg
                        /\ registrants' = registrants
          /\ (proc'[p].pc = "gen" /\ proc'[p].attempts > proc[p].attempts)
                 => /\ proc[p].pc = "insert"
                    /\ ViolatesUniqueBib(proc[p].bib)
                    /\ proc'[p].attempts = proc[p].attempts + 1]_vars

\* A call retried one rejected insert and then ended with the exhaustion of
\* its draws; another ended with a storage failure.
C25_Witness ==
    /\ \E p \in Procs :
          /\ proc[p].pc = "done"
          /\ proc[p].error = GenExhaustedMsg
          /\ proc[p].attempts = 2
    /\ \E p \in Procs :
          /\ proc[p].pc = "done"
          /\ proc[p].error = PgConnectionMsg
          /\ proc[p].attempts = 1

\* C26: a step that gives a session an adminId is a login whose username
\* and password are those of a stored admin, answered 200, and the adminId is
\* that admin's id; a login with a missing field is answered 400, one with an
\* unknown username or another password 401, and both leave the session as
\* it was.
C26_AdminIdOnlyByLogin ==
    [][\A s \in Sessions :
          /\ (session'[s] # session[s] /\ session'[s] # NoAdminId)
                 => \E u \in LoginUsernames, pw \in LoginPasswords :
                        /\ Login(s, u, pw)
                        /\ resp'.status = 200
                        /\ \E a \in adminUsers :
                               /\ a.username = u /\ a.password = pw
                               /\ session'[s] = a.id
          /\ \A u \in LoginUsernames, pw \in LoginPasswords :
                 Login(s, u, pw) =>
                     IF u = "" \/ pw = ""
                     THEN resp'.status = 400 /\ session' = session
                     ELSE IF \E a \in adminUsers : a.username = u /\ a.password = pw
                     THEN resp'.status = 200
                     ELSE resp'.status = 401 /\ session' = session]_vars

\* A login on a logged-in session was answered 401 and the session is still
\* logged in.
C26_Witness ==
    /\ resp.route = "login" /\ resp.status = 401
    /\ resp.adminId # NoAdminId
    /\ session[resp.sess] = resp.adminId

\* C27: in MemStorage usedBibNumbers is the set of the bibs of the
\* registrants in the map, whatever creates, status updates and clears came
\* before, and no two registrants of the map share a bib.
C27_UsedBibsAreStoredBibs ==
    /\ usedBibNumbers = Bibs(memRegistrants)
    /\ Cardinality(usedBibNumbers) = Cardinality(memRegistrants)

\* After a clear, one registrant was created and its status updated.
C27_Witness ==
    \E r \in memRegistrants :
        /\ memRegistrants = {r}
        /\ r.id > BibSpace
        /\ r.payment_status = "confirmado"
        /\ usedBibNumbers = {r.bib}

\* C28: a clear that comes between the existence check and the insert of a
\* create call leaves the call as it is, with its bib free; the insert on the
\* table still empty stores the registrant, returns it, and it is then the
\* only one stored; the stored bibs stay distinct.
C28_ClearDuringCreate ==
    [][/\ \A p \in Procs :
             /\ (clearAllRegistrants /\ proc[p].pc = "insert")
                    => /\ proc'[p] = proc[p]
                       /\ ExistingBib(proc[p].bib)' = {}
                       /\ ~ViolatesUniqueBib(proc[p].bib)'
             /\ (InsertRegistrant(p) /\ registrants = {})
                    => /\ proc'[p].pc = "done"
                       /\ proc'[p].status = 201
                       /\ proc'[p].error = NoError
                       /\ proc'[p].ret.bib = proc[p].bib
                       /\ registrants' = {proc'[p].ret}
       /\ Cardinality(Bibs(registrants')) = Cardinality(registrants')]_vars

\* A call is between its existence check and its insert, and the table,
\* which held a registrant, is empty.
C28_Witness ==
    /\ registrants = {}
    /\ nextId > 1
    /\ \E p \in Procs : proc[p].pc = "insert" /\ proc[p].attempts = 0

===========================================================================
